---- MODULE Spec2Model ----
(***************************************************************************)
(* Model of nrl_sdk_lib.converters.csv_to_geojson: the conversion of CSV   *)
(* records describing masts, line spans and guy wires into GeoJSON         *)
(* FeatureCollections grouped by coordinate reference system.              *)
(*                                                                         *)
(* Python values are represented as follows.                               *)
(*   str            a TLA+ string                                          *)
(*   str | None     None is <<>>, the string s is <<s>>                    *)
(*   dict[str,str]  a function from the present keys to str | None (a      *)
(*                  csv.DictReader row holds None for the trailing columns *)
(*                  of a short line)                                       *)
(*   float          [m, e], the decimal number m * 10^(-e), with m not     *)
(*                  divisible by 10 unless e = 0                           *)
(*   uuid.UUID      the 32 lower-case hexadecimal digits of the value      *)
(*   a call         [ok |-> TRUE, val |-> v] when it returns v, and        *)
(*                  [ok |-> FALSE, exc |-> class, msg |-> text] when it    *)
(*                  raises                                                 *)
(***************************************************************************)
EXTENDS Integers, Sequences, FiniteSets, TLC

VARIABLES
    rows,            \* the records csv.DictReader yields, in file order
    idx,             \* number of records the for loop has consumed
    feature_by_crs,  \* the insertion-ordered dict of _process_csv_file
    pc,              \* "loop", "returned" or "raised" ("idle": no batch)
    result,          \* what csv_to_geojson returned (None before / on raise)
    exc,             \* the exception that left csv_to_geojson (None if none)
    call,            \* a direct call of one function: [fn, args]
    ret              \* None until that call finished, then <<its outcome>>

vars == <<rows, idx, feature_by_crs, pc, result, exc, call, ret>>

(***************************************************************************)
(* Python values                                                           *)
(***************************************************************************)
None == <<>>

Some(v) == <<v>>

\* bool(value) of a str | None: false for None and for ""
Truthy(v) == v # None /\ v[1] # ""

\* what an f-string interpolates for a str | None
FStr(v) == IF v = None THEN "None" ELSE v[1]

Ok(v) == [ok |-> TRUE, val |-> v]

\* K applied to the value of v (v is evaluated once, before K)
Let(v, K(_)) == CHOOSE y \in {K(x) : x \in {v}} : TRUE

\* two statements in sequence: the call r, then K on what r returned; an
\* exception raised by r propagates and K does not run
Try(r, K(_)) == CHOOSE y \in {IF x.ok THEN K(x.val) ELSE x : x \in {r}} : TRUE

Raise(cls, m) == [ok |-> FALSE, exc |-> cls, msg |-> m]

ValueError(m) == Raise("ValueError", m)

KeyError(k) == Raise("KeyError", k)

\* row.get(key)
Get(row, key) == IF key \in DOMAIN row THEN row[key] ELSE None

\* row.get(key, default)
GetOr(row, key, default) == IF key \in DOMAIN row THEN row[key] ELSE Some(default)

\* mapping.get(value) on a dict with str keys
DictGet(mapping, value) ==
    IF value # None /\ value[1] \in DOMAIN mapping
    THEN Some(mapping[value[1]])
    ELSE None

(***************************************************************************)
(* Strings                                                                 *)
(***************************************************************************)
Char(s, i) == SubSeq(s, i, i)

RECURSIVE ReplaceFrom(_, _, _, _)
\* s[i:] with every occurrence of old, scanned left to right, replaced by new
ReplaceFrom(s, old, new, i) ==
    IF i > Len(s) THEN ""
    ELSE IF i + Len(old) - 1 <= Len(s) /\ SubSeq(s, i, i + Len(old) - 1) = old
         THEN new \o ReplaceFrom(s, old, new, i + Len(old))
         ELSE Char(s, i) \o ReplaceFrom(s, old, new, i + 1)

\* str.replace(old, new), old non-empty
Replace(s, old, new) == ReplaceFrom(s, old, new, 1)

\* str.strip(chars): s from its first to its last character outside chars
Strip(s, chars) ==
    Let({i \in 1..Len(s) : Char(s, i) \notin chars}, LAMBDA keep :
        IF keep = {} THEN ""
        ELSE SubSeq(s, CHOOSE i \in keep : \A j \in keep : i <= j,
                       CHOOSE i \in keep : \A j \in keep : i >= j))

(***************************************************************************)
(* float(text) and uuid.UUID(text)                                         *)
(*                                                                         *)
(* The texts of the model are written with decimal digits, '.', ',', '+',  *)
(* '-', ' ', hexadecimal letters, '{', '}' and letters that occur in no    *)
(* number: exponents, 'inf', 'nan', '_' and the '0x' prefix are outside    *)
(* the model's alphabet.                                                   *)
(***************************************************************************)
Digits == {"0", "1", "2", "3", "4", "5", "6", "7", "8", "9"}

DigitVal(c) ==
    CASE c = "0" -> 0 [] c = "1" -> 1 [] c = "2" -> 2 [] c = "3" -> 3
      [] c = "4" -> 4 [] c = "5" -> 5 [] c = "6" -> 6 [] c = "7" -> 7
      [] c = "8" -> 8 [] c = "9" -> 9

RECURSIVE DigitsValueTo(_, _)
\* the number the first n characters of a string of decimal digits denote
DigitsValueTo(s, n) ==
    IF n = 0 THEN 0 ELSE 10 * DigitsValueTo(s, n - 1) + DigitVal(Char(s, n))

\* the number a string of decimal digits denotes (0 for the empty string)
DigitsValue(s) == DigitsValueTo(s, Len(s))

RECURSIVE Normalize(_, _)
\* the canonical [m, e] of m * 10^(-e)
Normalize(m, e) ==
    IF e > 0 /\ m % 10 = 0 THEN Normalize(m \div 10, e - 1) ELSE [m |-> m, e |-> e]

\* position of the first c in s, 0 when there is none
Find(s, c) ==
    Let({i \in 1..Len(s) : Char(s, i) = c}, LAMBDA P :
        IF P = {} THEN 0 ELSE CHOOSE i \in P : \A j \in P : i <= j)

\* repr(s) of a str without quote characters
Repr(s) == "'" \o s \o "'"

\* the digits before and after the '.' of an unsigned decimal text
Split(u) ==
    Let(Find(u, "."), LAMBDA dot :
        IF dot = 0 THEN <<u, "">>
        ELSE <<SubSeq(u, 1, dot - 1), SubSeq(u, dot + 1, Len(u))>>)

\* float(s): surrounding whitespace stripped, an optional sign, then digits
\* with at most one '.', at least one digit in all
float(s) ==
    Let(Strip(s, {" "}), LAMBDA t :
    Let(Split(IF Len(t) > 0 /\ Char(t, 1) \in {"+", "-"}
              THEN SubSeq(t, 2, Len(t)) ELSE t), LAMBDA p :
        IF /\ \A i \in 1..Len(p[1]) : Char(p[1], i) \in Digits
           /\ \A i \in 1..Len(p[2]) : Char(p[2], i) \in Digits
           /\ Len(p[1]) + Len(p[2]) >= 1
        THEN Let(DigitsValue(p[1]) * 10^Len(p[2]) + DigitsValue(p[2]), LAMBDA mag :
                 Ok(Normalize(IF Char(t, 1) = "-" THEN 0 - mag ELSE mag, Len(p[2]))))
        ELSE ValueError("could not convert string to float: " \o Repr(s))))

HexLower(c) ==
    CASE c = "A" -> "a" [] c = "B" -> "b" [] c = "C" -> "c"
      [] c = "D" -> "d" [] c = "E" -> "e" [] c = "F" -> "f"
      [] OTHER -> c

HexDigits == Digits \cup {"a", "b", "c", "d", "e", "f"}

RECURSIVE LowerHexFrom(_, _)
LowerHexFrom(s, i) ==
    IF i > Len(s) THEN "" ELSE HexLower(Char(s, i)) \o LowerHexFrom(s, i + 1)

LowerHex(s) == LowerHexFrom(s, 1)

UuidHexLen == 32

\* uuid.UUID(hex): the 'urn:' and 'uuid:' prefixes, surrounding braces and
\* hyphens are removed; what is left must be 32 hexadecimal digits
UUID(hex) ==
    Let(Replace(Replace(hex, "urn:", ""), "uuid:", ""), LAMBDA h1 :
    Let(Strip(h1, {"{", "}"}), LAMBDA h2 :
    Let(Replace(h2, "-", ""), LAMBDA h3 :
        IF Len(h3) # UuidHexLen
        THEN ValueError("badly formed hexadecimal UUID string")
        ELSE Let(LowerHex(h3), LAMBDA lo :
                 IF \A i \in 1..Len(lo) : Char(lo, i) \in HexDigits
                 THEN Ok(lo)
                 ELSE ValueError("invalid literal for int() with base 16: "
                                 \o Repr(h3))))))

(***************************************************************************)
(* Enumeration resolvers                                                   *)
(***************************************************************************)
LuftspennTypeMapping ==
    [s \in {"Ledning, høyspent", "Ledning, lavspent", "Ledning, regionalnett"} |->
        CASE s = "Ledning, høyspent" -> "høgspent"
          [] s = "Ledning, lavspent" -> "lavspent"
          [] s = "Ledning, regionalnett" -> "regional"]

MastTypeMapping ==
    [s \in {"Mast, høyspent", "Mast, lavspent", "Mast, regionalnett"} |->
        CASE s = "Mast, høyspent" -> "høgspentmast"
          [] s = "Mast, lavspent" -> "lavspentmast"
          [] s = "Mast, regionalnett" -> "regionalmast"]

FeatureStatusMapping ==
    [s \in {"Eksisterende", "eksisterende", "Planlagt oppført", "planlagtOppført",
            "Planlagt fjernet", "planlagtFjernet", "Fjernet", "fjernet"} |->
        CASE s \in {"Eksisterende", "eksisterende"} -> "eksisterende"
          [] s \in {"Planlagt oppført", "planlagtOppført"} -> "planlagt_oppført"
          [] s \in {"Planlagt fjernet", "planlagtFjernet"} -> "planlagt_fjernet"
          [] s \in {"Fjernet", "fjernet"} -> "fjernet"]

LightingMapping ==
    [s \in {"Lyssatt", "Mellomintensitet, type A", "Mellomintensitet, type B",
            "Mellomintensitet, type C", "Lavintensitet, type A",
            "Lavintensitet, type B", "Høyintensitet, type A",
            "Høyintensitet, type B"} |->
        CASE s = "Lyssatt" -> "lyssatt"
          [] s = "Mellomintensitet, type A" -> "mellomintensitet_type_a"
          [] s = "Mellomintensitet, type B" -> "mellomintensitet_type_b"
          [] s = "Mellomintensitet, type C" -> "mellomintensitet_type_c"
          [] s = "Lavintensitet, type A" -> "lavintensitet_type_a"
          [] s = "Lavintensitet, type B" -> "lavintensitet_type_b"
          [] s = "Høyintensitet, type A" -> "høyintensitet_type_a"
          [] s = "Høyintensitet, type B" -> "høyintensitet_type_b"]

MarkingMapping ==
    [s \in {"Fargemerking", "Markør"} |->
        CASE s = "Fargemerking" -> "fargermerking"
          [] s = "Markør" -> "markør"]

\* mapping.get(value); raise ValueError when the result is None
map_luftspenn_type(value) ==
    Let(DictGet(LuftspennTypeMapping, value), LAMBDA r :
        IF r = None THEN ValueError("Unknown Luftspenntype: " \o FStr(value)) ELSE Ok(r[1]))

map_mast_type(value) ==
    Let(DictGet(MastTypeMapping, value), LAMBDA r :
        IF r = None THEN ValueError("Unknown Masttype: " \o FStr(value)) ELSE Ok(r[1]))

\* map_feature_status with the early return of the optional resolvers
map_feature_status_Lenient(value) ==
    IF ~Truthy(value) THEN Ok(None)
    ELSE Let(DictGet(FeatureStatusMapping, value), LAMBDA r :
             IF r = None THEN ValueError("Unknown Status: " \o FStr(value)) ELSE Ok(r[1]))

map_feature_status(value) ==
    Let(DictGet(FeatureStatusMapping, value), LAMBDA r :
        IF r = None THEN ValueError("Unknown Status: " \o FStr(value)) ELSE Ok(r[1]))

\* map_lighting_kind that raises on a text outside its mapping
map_lighting_kind_Strict(value) ==
    IF ~Truthy(value) THEN Ok(None)
    ELSE Let(DictGet(LightingMapping, value), LAMBDA r :
             IF r = None THEN ValueError("Unknown Lyssetting: " \o FStr(value)) ELSE Ok(r))

\* if not value: return None; return mapping.get(value)
map_lighting_kind(value) ==
    IF ~Truthy(value) THEN Ok(None) ELSE Ok(DictGet(LightingMapping, value))

map_marking_kind(value) ==
    IF ~Truthy(value) THEN Ok(None) ELSE Ok(DictGet(MarkingMapping, value))

LegalCitation == "FOR-2020-10-16-2068, §5(1)"

\* map_location_method that treats a missing method as the required
\* resolvers treat a missing member
map_location_method_Required(value) ==
    IF value = Some(LegalCitation) THEN Ok("20230101_5-1")
    ELSE IF ~Truthy(value) THEN ValueError("Unknown location method: " \o FStr(value))
    ELSE Ok("0")

map_location_method(value) ==
    IF value = Some(LegalCitation) THEN Ok("20230101_5-1") ELSE Ok("0")

(***************************************************************************)
(* Value coercion                                                          *)
(***************************************************************************)
RECURSIVE ReprItems(_, _)
ReprItems(fields, i) ==
    IF i > Len(fields) THEN ""
    ELSE (IF i > 1 THEN ", " ELSE "") \o Repr(fields[i]) \o ReprItems(fields, i + 1)

\* repr of a tuple of str
ReprTuple(fields) ==
    "(" \o ReprItems(fields, 1) \o (IF Len(fields) = 1 THEN "," ELSE "") \o ")"

RECURSIVE get_uuid_from_NoContinue(_, _, _)
\* get_uuid_from without the except clause: a malformed candidate ends the search
get_uuid_from_NoContinue(row, fields, i) ==
    IF i > Len(fields)
    THEN ValueError("No valid UUID found in fields: " \o ReprTuple(fields))
    ELSE Let(Get(row, fields[i]), LAMBDA value :
             IF Truthy(value)
             THEN UUID(value[1])
             ELSE get_uuid_from_NoContinue(row, fields, i + 1))

RECURSIVE get_uuid_from(_, _, _)
\* the for loop of get_uuid, from the i-th field on
get_uuid_from(row, fields, i) ==
    IF i > Len(fields)
    THEN ValueError("No valid UUID found in fields: " \o ReprTuple(fields))
    ELSE Let(Get(row, fields[i]), LAMBDA value :
             IF Truthy(value)
             THEN Let(UUID(value[1]), LAMBDA u :
                      IF u.ok THEN u ELSE get_uuid_from(row, fields, i + 1))
             ELSE get_uuid_from(row, fields, i + 1))

get_uuid(row, fields) == get_uuid_from(row, fields, 1)

\* parse_float that hands the text to float() as it is
parse_float_NoReplace(value, field_name) ==
    IF value = None
    THEN ValueError("Missing " \o field_name)
    ELSE Let(float(value[1]), LAMBDA r :
             IF r.ok THEN r
             ELSE ValueError(field_name \o " is not a valid number: " \o value[1]))

parse_float(value, field_name) ==
    IF value = None
    THEN ValueError("Missing " \o field_name)
    ELSE Let(Replace(value[1], ",", "."), LAMBDA t :
         Let(float(t), LAMBDA r :
             IF r.ok THEN r
             ELSE ValueError(field_name \o " is not a valid number: " \o value[1])))

\* the outcome of evaluating the calls rs in order: the list of their values,
\* or the first exception
Collect(rs) ==
    Let({i \in 1..Len(rs) : ~rs[i].ok}, LAMBDA bad :
        IF bad = {}
        THEN Ok([i \in 1..Len(rs) |-> rs[i].val])
        ELSE rs[CHOOSE i \in bad : \A j \in bad : i <= j])

\* float(c.replace(",", "."))
float_of(c) == Let(Replace(c, ",", "."), LAMBDA t : float(t))

\* [float(c.replace(",", ".")) for c in coords if isinstance(c, str) and c != ""]
parse_coordinates(coords) ==
    Let(SelectSeq(coords, LAMBDA c : c # None /\ c[1] # ""), LAMBDA kept :
    Let([i \in 1..Len(kept) |-> float_of(kept[i][1])], LAMBDA rs : Collect(rs)))

(***************************************************************************)
(* Geometry and CRS                                                        *)
(***************************************************************************)
len_coordinates_value == 2

Crs(name) == [properties |-> [name |-> name]]

LineString(coords) == [type |-> "LineString", coordinates |-> coords]

Point(coords) == [type |-> "Point", coordinates |-> coords]

\* a, b, ... = xs with n targets
Unpack(xs, n) ==
    IF Len(xs) = n THEN Ok(xs)
    ELSE IF Len(xs) < n
         THEN ValueError("not enough values to unpack (expected " \o ToString(n)
                         \o ", got " \o ToString(Len(xs)) \o ")")
         ELSE ValueError("too many values to unpack (expected " \o ToString(n) \o ")")

\* has_z with any() in place of all()
has_z_Any(coordinates) ==
    \E i \in 1..Len(coordinates) : coordinates[i][3] \notin {None, Some("")}

\* has_z of create_geometry
has_z(coordinates) ==
    \A i \in 1..Len(coordinates) : coordinates[i][3] \notin {None, Some("")}

\* [[parse_float(c[1], "y"), parse_float(c[0], "x"), parse_float(c[2], "z")]
\*  for c in coordinates]
line_coords_yxz(coordinates) ==
    Let([i \in 1..Len(coordinates) |->
            Let(<<parse_float(coordinates[i][2], "y"),
                  parse_float(coordinates[i][1], "x"),
                  parse_float(coordinates[i][3], "z")>>, LAMBDA ps : Collect(ps))],
        LAMBDA cs : Collect(cs))

\* line_coords_yx that parses an elevation that is there and leaves it out
line_coords_yx_ParsesZ(coordinates) ==
    Let([i \in 1..Len(coordinates) |->
            Let(<<parse_float(coordinates[i][2], "y"),
                  parse_float(coordinates[i][1], "x"),
                  IF Truthy(coordinates[i][3])
                  THEN parse_float(coordinates[i][3], "z") ELSE Ok(None)>>,
                LAMBDA ps : Try(Collect(ps), LAMBDA yxz : Ok(SubSeq(yxz, 1, 2))))],
        LAMBDA cs : Collect(cs))

\* line_coords_yx that keeps the source order of x and y
line_coords_yx_Unswapped(coordinates) ==
    Let([i \in 1..Len(coordinates) |->
            Let(<<parse_float(coordinates[i][1], "x"),
                  parse_float(coordinates[i][2], "y")>>, LAMBDA ps : Collect(ps))],
        LAMBDA cs : Collect(cs))

\* [[parse_float(c[1], "y"), parse_float(c[0], "x")] for c in coordinates]
line_coords_yx(coordinates) ==
    Let([i \in 1..Len(coordinates) |->
            Let(<<parse_float(coordinates[i][2], "y"),
                  parse_float(coordinates[i][1], "x")>>, LAMBDA ps : Collect(ps))],
        LAMBDA cs : Collect(cs))

\* the body of the try statement of create_geometry
create_geometry_try(coordinates, is_line) ==
    IF has_z(coordinates)
    THEN IF is_line
         THEN Try(line_coords_yxz(coordinates), LAMBDA coords :
                  Ok(<<LineString(coords), Crs("EPSG:5972")>>))
         ELSE IF Len(coordinates) = 0
              THEN Raise("IndexError", "list index out of range")
              ELSE Try(parse_coordinates(coordinates[1]), LAMBDA ps :
                   Try(Unpack(ps, 3), LAMBDA xyz :
                       Ok(<<Point(<<xyz[2], xyz[1], xyz[3]>>), Crs("EPSG:5972")>>)))
    ELSE IF is_line
         THEN Try(line_coords_yx(coordinates), LAMBDA coords :
                  Ok(<<LineString(coords), Crs("EPSG:25832")>>))
         ELSE IF Len(coordinates) = 0
              THEN Raise("IndexError", "list index out of range")
              ELSE Try(parse_coordinates(SubSeq(coordinates[1], 1, 2)), LAMBDA ps :
                   Try(Unpack(ps, 2), LAMBDA xy :
                       Ok(<<Point(<<xy[2], xy[1]>>), Crs("EPSG:25832")>>)))

\* create_geometry with the check of the point count inside the try statement
create_geometry_ArityInTry(coordinates, is_line) ==
    Let(IF is_line /\ Len(coordinates) # len_coordinates_value
        THEN ValueError("LineString requires exactly 2 points")
        ELSE create_geometry_try(coordinates, is_line), LAMBDA r :
            IF ~r.ok /\ r.exc = "ValueError"
            THEN ValueError("Invalid coordinate values: " \o r.msg)
            ELSE r)

create_geometry(coordinates, is_line) ==
    IF is_line /\ Len(coordinates) # len_coordinates_value
    THEN ValueError("LineString requires exactly 2 points")
    ELSE Let(create_geometry_try(coordinates, is_line), LAMBDA r :
             IF ~r.ok /\ r.exc = "ValueError"
             THEN ValueError("Invalid coordinate values: " \o r.msg)
             ELSE r)

(***************************************************************************)
(* Row classifier and feature assembler                                    *)
(***************************************************************************)
\* row[key]
Subscript(row, key) == IF key \in DOMAIN row THEN Ok(row[key]) ELSE KeyError(Repr(key))

UpperLetters == "ABCDEFGHIJKLMNOPQRSTUVWXYZ"

LowerLetters == "abcdefghijklmnopqrstuvwxyz"

RECURSIVE LowerFrom(_, _)
LowerFrom(s, i) ==
    IF i > Len(s) THEN ""
    ELSE LET p == Find(UpperLetters, Char(s, i))
         IN  (IF p = 0 THEN Char(s, i) ELSE Char(LowerLetters, p))
             \o LowerFrom(s, i + 1)

\* str.lower() of a text written with unaccented letters
Lower(s) == LowerFrom(s, 1)

Feature(geometry, properties) ==
    [type |-> "Feature", geometry |-> geometry, properties |-> properties]

\* KomponentReferanse(komponentkodeverdi=row.get("ID", "")) if row.get("ID") else None
komponentreferanse(row) ==
    IF Truthy(Get(row, "ID"))
    THEN Some([komponentkodeverdi |-> GetOr(row, "ID", "")[1]])
    ELSE None

\* parse_float(row[key], field_name) if row.get(key) else None
optional_float(row, key, field_name) ==
    IF Truthy(Get(row, key))
    THEN Try(parse_float(row[key], field_name), LAMBDA v : Ok(Some(v)))
    ELSE Ok(None)

\* [row[x], row[y], row.get(z, "")]
triple(row, x, y, z) ==
    Collect(<<Subscript(row, x), Subscript(row, y), Ok(GetOr(row, z, ""))>>)

\* [[row["x1"], row["y1"], row.get("z1", "")], [row["x2"], row["y2"], row.get("z2", "")]]
two_triples(row) ==
    Collect(<<triple(row, "x1", "y1", "z1"), triple(row, "x2", "y2", "z2")>>)

hoydereferanse(row) ==
    IF Truthy(Get(row, "Hoydereferanse (NRL)"))
    THEN Let(Lower(row["Hoydereferanse (NRL)"][1]), LAMBDA low :
             IF low = "topp" THEN Some("topp")
             ELSE IF low = "fot" THEN Some("fot")
             ELSE None)
    ELSE None

convert_overhead_structure_rows(row) ==
    Try(get_uuid(row, <<"OverheadStructure_uuid", "ID">>), LAMBDA komponentident :
    Try(map_mast_type(Get(row, "Masttype (NRL)")), LAMBDA masttype :
    Try(map_feature_status(Get(row, "Status (NRL)")), LAMBDA feature_status :
    Try(map_location_method(Get(row, "Verifisert nøyaktighet (NRL)")), LAMBDA noyaktighet :
    Try(map_lighting_kind(Get(row, "Luftfartshinderlyssetting(NRL)")), LAMBDA lyssetting :
    Try(map_marking_kind(Get(row, "Luftfartshindermerking (NRL)")), LAMBDA merking :
    Let(hoydereferanse(row), LAMBDA href :
    Try(optional_float(row, "Vertikalavstand meter (NRL)", "Vertikalavstand"),
        LAMBDA max_height :
    Try(Collect(<<triple(row, "x", "y", "z")>>), LAMBDA coords :
    Try(create_geometry(coords, FALSE), LAMBDA geom :
        Ok(<<Feature(geom[1],
               [komponentident |-> komponentident,
                status |-> feature_status,
                verifisert_rapporteringsnoyaktighet |-> noyaktighet,
                feature_type |-> "NrlMast",
                mast_type |-> masttype,
                luftfartshinderlyssetting |-> lyssetting,
                luftfartshindermerking |-> merking,
                hoydereferanse |-> href,
                vertikal_avstand |-> max_height]),
             geom[2]>>)))))))))))

\* convert_guy_segments_rows that resolves the location method from the
\* accuracy column, as the other two converters do
convert_guy_segments_rows_FromAccuracy(row) ==
    Try(get_uuid(row, <<"Guy_uuid", "ID">>), LAMBDA komponentident :
    Try(map_feature_status(Get(row, "Status (NRL)")), LAMBDA feature_status :
    Try(map_location_method(Get(row, "Verifisert nøyaktighet (NRL)")), LAMBDA noyaktighet :
    Try(two_triples(row), LAMBDA coords :
    Try(create_geometry(coords, TRUE), LAMBDA geom :
        Ok(<<Feature(geom[1],
               [luftspenn_type |-> "bardun",
                komponentident |-> komponentident,
                status |-> feature_status,
                verifisert_rapporteringsnoyaktighet |-> noyaktighet,
                feature_type |-> "NrlLuftspenn",
                referanse |-> komponentreferanse(row)]),
             geom[2]>>))))))

\* convert_guy_segments_rows that resolves the span type from the record, as
\* the AC-line converter does
convert_guy_segments_rows_Resolved(row) ==
    Try(get_uuid(row, <<"Guy_uuid", "ID">>), LAMBDA komponentident :
    Try(map_feature_status(Get(row, "Status (NRL)")), LAMBDA feature_status :
    Try(map_luftspenn_type(Get(row, "Luftspenntype (NRL)")), LAMBDA luftspennstype :
    Try(map_location_method(Get(row, "Vertikalavstand meter (NRL)")), LAMBDA noyaktighet :
    Try(two_triples(row), LAMBDA coords :
    Try(create_geometry(coords, TRUE), LAMBDA geom :
        Ok(<<Feature(geom[1],
               [luftspenn_type |-> luftspennstype,
                komponentident |-> komponentident,
                status |-> feature_status,
                verifisert_rapporteringsnoyaktighet |-> noyaktighet,
                feature_type |-> "NrlLuftspenn",
                referanse |-> komponentreferanse(row)]),
             geom[2]>>)))))))

convert_guy_segments_rows(row) ==
    Try(get_uuid(row, <<"Guy_uuid", "ID">>), LAMBDA komponentident :
    Try(map_feature_status(Get(row, "Status (NRL)")), LAMBDA feature_status :
    Try(map_location_method(Get(row, "Vertikalavstand meter (NRL)")), LAMBDA noyaktighet :
    Try(two_triples(row), LAMBDA coords :
    Try(create_geometry(coords, TRUE), LAMBDA geom :
        Ok(<<Feature(geom[1],
               [luftspenn_type |-> "bardun",
                komponentident |-> komponentident,
                status |-> feature_status,
                verifisert_rapporteringsnoyaktighet |-> noyaktighet,
                feature_type |-> "NrlLuftspenn",
                referanse |-> komponentreferanse(row)]),
             geom[2]>>))))))

\* mast_refs that leaves out a mast field that is not a valid UUID
mast_refs_SkipMalformed(row) ==
    Let(SelectSeq(<<"Mast_1_ObjectID", "Mast_2_ObjectID">>,
                  LAMBDA k : Truthy(Get(row, k)) /\ UUID(row[k][1]).ok), LAMBDA keys :
    Let([i \in 1..Len(keys) |-> UUID(row[keys[i]][1])], LAMBDA us : Collect(us)))

\* [uuid.UUID(row[f"Mast_{i}_ObjectID"]) for i in [1, 2] if row.get(f"Mast_{i}_ObjectID")]
mast_refs(row) ==
    Let(SelectSeq(<<"Mast_1_ObjectID", "Mast_2_ObjectID">>,
                  LAMBDA k : Truthy(Get(row, k))), LAMBDA keys :
    Let([i \in 1..Len(keys) |-> UUID(row[keys[i]][1])], LAMBDA us : Collect(us)))

convert_ac_linesegments_rows(row) ==
    Try(get_uuid(row, <<"ACLineSegmentSpan_uuid", "ID">>), LAMBDA komponentident :
    Try(map_feature_status(Get(row, "Status (NRL)")), LAMBDA feature_status :
    Try(map_luftspenn_type(Get(row, "Luftspenntype (NRL)")), LAMBDA luftspennstype :
    Try(map_location_method(Get(row, "Verifisert nøyaktighet (NRL)")), LAMBDA noyaktighet :
    Try(map_lighting_kind(Some("Luftfartshinderlyssetting(NRL)")), LAMBDA lyssetting :
    Try(map_marking_kind(Some("Luftfartshindermerking(NRL)")), LAMBDA merking :
    Try(two_triples(row), LAMBDA coords :
    Try(create_geometry(coords, TRUE), LAMBDA geom :
    Try(mast_refs(row), LAMBDA mast :
    Let(komponentreferanse(row), LAMBDA referanse :
    Try(optional_float(row, "Anleggsbredde meter (NRL)", "Anleggsbredde"),
        LAMBDA anleggsbredde :
        Ok(<<Feature(geom[1],
               [luftspenn_type |-> luftspennstype,
                komponentident |-> komponentident,
                nrl_mast |-> mast,
                status |-> feature_status,
                verifisert_rapporteringsnoyaktighet |-> noyaktighet,
                feature_type |-> "NrlLuftspenn",
                referanse |-> referanse,
                luftfartshinderlyssetting |-> lyssetting,
                luftfartshindermerking |-> merking,
                anleggsbredde |-> anleggsbredde]),
             geom[2]>>))))))))))))

\* process_row with the two branches of the Betegnelse test exchanged
process_row_GuyElse(row) ==
    Let(Get(row, "Tabell ID"), LAMBDA table_id :
        IF table_id = Some("261")
        THEN Try(Subscript(row, "Betegnelse"), LAMBDA betegnelse :
                 IF betegnelse = Some("Bardunline")
                 THEN convert_ac_linesegments_rows(row)
                 ELSE convert_guy_segments_rows(row))
        ELSE IF table_id = Some("109")
             THEN convert_overhead_structure_rows(row)
             ELSE ValueError("Unknown Tabell ID: " \o FStr(table_id)))

\* process_row that takes a record without 'Tabell ID' for a mast
process_row_DefaultMast(row) ==
    Let(GetOr(row, "Tabell ID", "109"), LAMBDA table_id :
        IF table_id = Some("261")
        THEN Try(Subscript(row, "Betegnelse"), LAMBDA betegnelse :
                 IF betegnelse = Some("Bardunline")
                 THEN convert_guy_segments_rows(row)
                 ELSE convert_ac_linesegments_rows(row))
        ELSE IF table_id = Some("109")
             THEN convert_overhead_structure_rows(row)
             ELSE ValueError("Unknown Tabell ID: " \o FStr(table_id)))

process_row(row) ==
    Let(Get(row, "Tabell ID"), LAMBDA table_id :
        IF table_id = Some("261")
        THEN Try(Subscript(row, "Betegnelse"), LAMBDA betegnelse :
                 IF betegnelse = Some("Bardunline")
                 THEN convert_guy_segments_rows(row)
                 ELSE convert_ac_linesegments_rows(row))
        ELSE IF table_id = Some("109")
             THEN convert_overhead_structure_rows(row)
             ELSE ValueError("Unknown Tabell ID: " \o FStr(table_id)))

(***************************************************************************)
(* Collection grouper: _process_csv_file                                   *)
(***************************************************************************)
\* SetDefaultAppend with a new key put in front of the older keys
SetDefaultAppend_NewKeyFirst(d, crs_name, feature) ==
    IF \E i \in 1..Len(d) : d[i].key = crs_name
    THEN [i \in 1..Len(d) |->
            IF d[i].key = crs_name
            THEN [key |-> d[i].key, features |-> Append(d[i].features, feature)]
            ELSE d[i]]
    ELSE <<[key |-> crs_name, features |-> <<feature>>]>> \o d

\* SetDefaultAppend that leaves out a feature equal to one already listed
SetDefaultAppend_Dedup(d, crs_name, feature) ==
    IF \E i \in 1..Len(d) : d[i].key = crs_name
    THEN [i \in 1..Len(d) |->
            IF d[i].key = crs_name /\ \A j \in 1..Len(d[i].features) : d[i].features[j] # feature
            THEN [key |-> d[i].key, features |-> Append(d[i].features, feature)]
            ELSE d[i]]
    ELSE Append(d, [key |-> crs_name, features |-> <<feature>>])

\* feature_by_crs.setdefault(crs_name, []).append(feature), on a dict kept as
\* the list of its entries in insertion order
SetDefaultAppend(d, crs_name, feature) ==
    IF \E i \in 1..Len(d) : d[i].key = crs_name
    THEN [i \in 1..Len(d) |->
            IF d[i].key = crs_name
            THEN [key |-> d[i].key, features |-> Append(d[i].features, feature)]
            ELSE d[i]]
    ELSE Append(d, [key |-> crs_name, features |-> <<feature>>])

\* LoopBody that skips a record whose conversion raised
LoopBody_SkipFailed(d, row) ==
    Let(process_row(row), LAMBDA r :
        IF r.ok
        THEN Ok(SetDefaultAppend(d, r.val[2].properties.name, r.val[1]))
        ELSE Ok(d))

\* LoopBody that files every feature under the CRS of the first record
LoopBody_OneKey(d, row) ==
    Try(process_row(row), LAMBDA fc :
        Ok(SetDefaultAppend(d, IF d = <<>> THEN fc[2].properties.name ELSE d[1].key,
                            fc[1])))

\* one iteration of the for loop: the dict after it, or the exception that
\* leaves it
LoopBody(d, row) ==
    Try(process_row(row), LAMBDA fc :
        Ok(SetDefaultAppend(d, fc[2].properties.name, fc[1])))

FeatureCollection(crs, features) ==
    [type |-> "FeatureCollection", crs |-> crs, features |-> features]

\* the list comprehension over feature_by_crs.items()
Collections(d) ==
    [i \in 1..Len(d) |-> FeatureCollection(Crs(d[i].key), d[i].features)]

(***************************************************************************)
(* Input records                                                           *)
(***************************************************************************)
U1 == "550e8400-e29b-41d4-a716-446655440000"

U2 == "FA1BF202-345C-49F0-831B-5D5A12103612"

U3 == "d6716fda-aac4-4229-9e2d-690a32dc5214"

\* the row without the column key
Drop(row, key) == [k \in DOMAIN row \ {key} |-> row[k]]

\* the row with column key holding v
With(row, key, v) == (key :> v) @@ row

Mast3D ==
    ("Tabell ID" :> Some("109")) @@ ("OverheadStructure_uuid" :> Some(U1))
    @@ ("Masttype (NRL)" :> Some("Mast, høyspent"))
    @@ ("Status (NRL)" :> Some("Eksisterende"))
    @@ ("Luftfartshinderlyssetting(NRL)" :> Some("Lyssatt"))
    @@ ("Luftfartshindermerking (NRL)" :> Some("Fargemerking"))
    @@ ("x" :> Some("100")) @@ ("y" :> Some("200")) @@ ("z" :> Some("10"))

Mast2D ==
    ("Tabell ID" :> Some("109")) @@ ("OverheadStructure_uuid" :> Some(""))
    @@ ("ID" :> Some(U2))
    @@ ("Masttype (NRL)" :> Some("Mast, lavspent"))
    @@ ("Status (NRL)" :> Some("planlagtOppført"))
    @@ ("Hoydereferanse (NRL)" :> Some("Topp"))
    @@ ("Vertikalavstand meter (NRL)" :> Some("12,5"))
    @@ ("Luftfartshinderlyssetting(NRL)" :> Some("Blinkende"))
    @@ ("x" :> Some("5852,79")) @@ ("y" :> Some("6544.145")) @@ ("z" :> Some(""))

Guy3D ==
    ("Tabell ID" :> Some("261")) @@ ("Betegnelse" :> Some("Bardunline"))
    @@ ("Guy_uuid" :> Some(U3)) @@ ("ID" :> Some("G-17"))
    @@ ("Status (NRL)" :> Some("Eksisterende"))
    @@ ("x1" :> Some("100")) @@ ("y1" :> Some("200")) @@ ("z1" :> Some("0,0"))
    @@ ("x2" :> Some("300")) @@ ("y2" :> Some("400")) @@ ("z2" :> Some("20"))

\* only one end point has an elevation
GuyMixedZ == With(Guy3D, "z2", Some(""))

AC2D ==
    ("Tabell ID" :> Some("261")) @@ ("Betegnelse" :> Some("Ledning"))
    @@ ("ACLineSegmentSpan_uuid" :> Some(U3))
    @@ ("Status (NRL)" :> Some("Fjernet"))
    @@ ("Luftspenntype (NRL)" :> Some("Ledning, lavspent"))
    @@ ("Verifisert nøyaktighet (NRL)" :> Some(LegalCitation))
    @@ ("x1" :> Some("1.5")) @@ ("y1" :> Some("2")) @@ ("x2" :> Some("3")) @@ ("y2" :> Some("-4,25"))

AC3D ==
    ("Tabell ID" :> Some("261")) @@ ("Betegnelse" :> Some(""))
    @@ ("ACLineSegmentSpan_uuid" :> Some(U1)) @@ ("ID" :> Some("L-1"))
    @@ ("Status (NRL)" :> Some("eksisterende"))
    @@ ("Luftspenntype (NRL)" :> Some("Ledning, høyspent"))
    @@ ("Luftfartshinderlyssetting(NRL)" :> Some("Lyssatt"))
    @@ ("Luftfartshindermerking (NRL)" :> Some("Markør"))
    @@ ("Mast_1_ObjectID" :> Some(U1)) @@ ("Mast_2_ObjectID" :> Some(""))
    @@ ("Anleggsbredde meter (NRL)" :> Some("5.5"))
    @@ ("x1" :> Some("100")) @@ ("y1" :> Some("200")) @@ ("z1" :> Some("10"))
    @@ ("x2" :> Some("300")) @@ ("y2" :> Some("400")) @@ ("z2" :> Some("20"))

ValidRows == {Mast3D, Mast2D, Guy3D, GuyMixedZ, AC2D, AC3D}

\* records of a table that is neither 109 nor 261
UnknownTableRows ==
    {With(Mast3D, "Tabell ID", Some("110")), Drop(Guy3D, "Tabell ID"),
     With(AC3D, "Tabell ID", Some(""))}

\* records that fail inside one of the three converters
FailingRows ==
    {With(Mast3D, "Status (NRL)", Some("")),
     With(Mast2D, "x", Some("abc")),
     Drop(AC3D, "Betegnelse")}

\* the records a batch is made of
BatchRows == ValidRows \cup UnknownTableRows \cup FailingRows

MaxRows == 3

(***************************************************************************)
(* csv_to_geojson as a state machine                                       *)
(***************************************************************************)
NoCall == [fn |-> "", args |-> <<>>]

Init ==
    /\ rows \in UNION {[1..n -> BatchRows] : n \in 0..MaxRows}
    /\ idx = 0
    /\ feature_by_crs = <<>>
    /\ pc = "loop"
    /\ result = None
    /\ exc = None
    /\ call = NoCall
    /\ ret = None

\* for row in reader: the next record is read and the loop body runs on it
ForRow ==
    /\ pc = "loop"
    /\ idx < Len(rows)
    /\ idx' = idx + 1
    /\ \E b \in {LoopBody(feature_by_crs, rows[idx + 1])} :
           IF b.ok
           THEN /\ feature_by_crs' = b.val
                /\ UNCHANGED <<pc, exc>>
           ELSE /\ pc' = "raised"
                /\ exc' = Some(b)
                /\ UNCHANGED feature_by_crs
    /\ UNCHANGED <<rows, result, call, ret>>

\* the reader is exhausted: the collections are built and returned
Return ==
    /\ pc = "loop"
    /\ idx = Len(rows)
    /\ result' = Some(Collections(feature_by_crs))
    /\ pc' = "returned"
    /\ UNCHANGED <<rows, idx, feature_by_crs, exc, call, ret>>

Next == ForRow \/ Return

Spec == Init /\ [][Next]_vars

(***************************************************************************)
(* Direct calls of the functions of the module, one call per behaviour     *)
(***************************************************************************)
\* texts handed to the enumeration resolvers: every accepted text and some
\* that no resolver accepts
EnumTexts ==
    DOMAIN LuftspennTypeMapping \cup DOMAIN MastTypeMapping
    \cup DOMAIN FeatureStatusMapping \cup DOMAIN LightingMapping
    \cup DOMAIN MarkingMapping
    \cup {LegalCitation, "", " ", "InvalidType", "EKSISTERENDE", "lyssatt",
          "Eksisterende ", "None", "FOR-2020-10-16-2068", "0"}

OptTexts == {None} \cup {Some(t) : t \in EnumTexts}

Resolvers ==
    {"map_luftspenn_type", "map_mast_type", "map_feature_status",
     "map_lighting_kind", "map_marking_kind", "map_location_method"}

\* the raw components of coordinate triples
XTexts == {Some("100"), Some("2,5"), Some(""), Some("abc"), None}

YTexts == {Some("200"), Some("-4,25"), Some("")}

ZTexts == {Some("10"), Some("0,5"), Some(""), Some("zz"), None}

Triples == {<<x, y, z>> : x \in XTexts, y \in YTexts, z \in ZTexts}

\* the triples of the lists that have more than two points
ArityTriples == {<<Some("100"), Some("200"), Some("10")>>, <<Some("abc"), Some("200"), Some("")>>}

MaxPoints == 3

CoordLists ==
    UNION {[1..n -> IF n <= 2 THEN Triples ELSE ArityTriples] : n \in 0..MaxPoints}

\* the columns of the input file
Columns ==
    {"Tabell ID", "Betegnelse", "OverheadStructure_uuid", "Guy_uuid",
     "ACLineSegmentSpan_uuid", "ID", "Masttype (NRL)", "Status (NRL)",
     "Luftspenntype (NRL)", "Verifisert nøyaktighet (NRL)",
     "Luftfartshinderlyssetting(NRL)", "Luftfartshindermerking (NRL)",
     "Luftfartshindermerking(NRL)", "Hoydereferanse (NRL)",
     "Vertikalavstand meter (NRL)", "Anleggsbredde meter (NRL)",
     "Mast_1_ObjectID", "Mast_2_ObjectID",
     "x", "y", "z", "x1", "y1", "z1", "x2", "y2", "z2"}

\* the values one column of a valid record is replaced by
ProbeValues ==
    {None, Some(""), Some("abc"), Some("12,5"), Some(U2), Some("Bardunline"),
     Some("109"), Some("261"), Some("Lyssatt"), Some("Markør"), Some(LegalCitation),
     Some("Ledning, regionalnett"), Some("Mast, regionalnett"),
     Some("Planlagt fjernet"), Some("FOT")}

\* every valid record, and every valid record with one column replaced or
\* removed
ProbeRows ==
    ValidRows
    \cup {With(r, k, v) : r \in ValidRows, k \in Columns, v \in ProbeValues}
    \cup {Drop(r, k) : r \in ValidRows, k \in Columns}

\* the texts of identifier columns: absent, empty, blank, three spellings
\* of valid UUIDs and three malformed ones
UuidTexts ==
    {None, Some(""), Some(" "), Some(U1), Some(U2), Some("{" \o U3 \o "}"),
     Some("G-17"), Some("550e8400-e29b-41d4-a716-44665544000"),
     Some("g50e8400-e29b-41d4-a716-446655440000")}

UuidFieldLists ==
    {<<"Guy_uuid", "ID">>, <<"ID", "Guy_uuid">>, <<"ID">>, <<>>,
     <<"OverheadStructure_uuid", "Guy_uuid", "ID">>}

\* records with any of the two identifier columns
UuidRows ==
    UNION {[ks -> UuidTexts] : ks \in SUBSET {"Guy_uuid", "ID"}}

\* the texts handed to parse_float: absent, numbers written with a dot, a
\* comma, a sign or blanks around them, and texts that are no numbers
FloatTexts ==
    {None} \cup
    {Some(t) : t \in {"", " ", "12.5", "12,5", "-4,25", "-4.25", "abc", "1,2,3",
                      "1.2.3", "100", ",5", ".5", "5,", "1 000", " 7 ", "+3",
                      "12,50", "--1", ".", ","}}

FieldNames == {"x", "test_field", "Vertikalavstand"}

\* the calls of the behaviours, one set per signature
ParseFloatCalls ==
    {[fn |-> "parse_float", args |-> <<v, f>>] : v \in FloatTexts, f \in FieldNames}

ResolverCalls == {[fn |-> f, args |-> <<v>>] : f \in Resolvers, v \in OptTexts}

GetUuidCalls ==
    {[fn |-> "get_uuid", args |-> <<r, fs>>] : r \in UuidRows, fs \in UuidFieldLists}

CreateGeometryCalls ==
    {[fn |-> "create_geometry", args |-> <<c, l>>] : c \in CoordLists, l \in BOOLEAN}

ProcessRowCalls ==
    {[fn |-> "process_row", args |-> <<r>>] : r \in BatchRows \cup ProbeRows}

InitFn ==
    /\ rows = <<>>
    /\ idx = 0
    /\ feature_by_crs = <<>>
    /\ pc = "idle"
    /\ result = None
    /\ exc = None
    /\ \/ call \in ResolverCalls
       \/ call \in GetUuidCalls
       \/ call \in ParseFloatCalls
       \/ call \in CreateGeometryCalls
       \/ call \in ProcessRowCalls
    /\ ret = None

batch == <<rows, idx, feature_by_crs, pc, result, exc>>

CallMapLuftspennType ==
    /\ call.fn = "map_luftspenn_type"
    /\ ret = None
    /\ ret' = Some(map_luftspenn_type(call.args[1]))
    /\ UNCHANGED <<batch, call>>

CallMapMastType ==
    /\ call.fn = "map_mast_type"
    /\ ret = None
    /\ ret' = Some(map_mast_type(call.args[1]))
    /\ UNCHANGED <<batch, call>>

CallMapFeatureStatus ==
    /\ call.fn = "map_feature_status"
    /\ ret = None
    /\ ret' = Some(map_feature_status(call.args[1]))
    /\ UNCHANGED <<batch, call>>

CallMapLightingKind ==
    /\ call.fn = "map_lighting_kind"
    /\ ret = None
    /\ ret' = Some(map_lighting_kind(call.args[1]))
    /\ UNCHANGED <<batch, call>>

CallMapMarkingKind ==
    /\ call.fn = "map_marking_kind"
    /\ ret = None
    /\ ret' = Some(map_marking_kind(call.args[1]))
    /\ UNCHANGED <<batch, call>>

CallMapLocationMethod ==
    /\ call.fn = "map_location_method"
    /\ ret = None
    /\ ret' = Some(map_location_method(call.args[1]))
    /\ UNCHANGED <<batch, call>>

CallCreateGeometry ==
    /\ call.fn = "create_geometry"
    /\ ret = None
    /\ ret' = Some(create_geometry(call.args[1], call.args[2]))
    /\ UNCHANGED <<batch, call>>

CallGetUuid ==
    /\ call.fn = "get_uuid"
    /\ ret = None
    /\ ret' = Some(get_uuid(call.args[1], call.args[2]))
    /\ UNCHANGED <<batch, call>>

CallParseFloat ==
    /\ call.fn = "parse_float"
    /\ ret = None
    /\ ret' = Some(parse_float(call.args[1], call.args[2]))
    /\ UNCHANGED <<batch, call>>

CallProcessRow ==
    /\ call.fn = "process_row"
    /\ ret = None
    /\ ret' = Some(process_row(call.args[1]))
    /\ UNCHANGED <<batch, call>>

NextFn ==
    \/ CallMapLuftspennType
    \/ CallMapMastType
    \/ CallMapFeatureStatus
    \/ CallMapLightingKind
    \/ CallMapMarkingKind
    \/ CallMapLocationMethod
    \/ CallCreateGeometry
    \/ CallGetUuid
    \/ CallParseFloat
    \/ CallProcessRow

SpecFn == InitFn /\ [][NextFn]_vars

(***************************************************************************)
(* Properties of the collection grouper (checked under Spec)               *)
(***************************************************************************)
\* what each record of the input alphabet converts to
Outcome == [r \in BatchRows |-> process_row(r)]

\* the CRS tag and the feature record i of the batch produces
Tag(i) == Outcome[rows[i]].val[2].properties.name

Feat(i) == Outcome[rows[i]].val[1]

\* the positions of the records whose conversion raises
Failing == {i \in 1..Len(rows) : ~Outcome[rows[i]].ok}

\* the number of records converted so far
Converted == IF pc = "raised" THEN idx - 1 ELSE idx

\* position of the first of the first n records that produces the tag
FirstWith(tag, n) ==
    CHOOSE i \in 1..n : Tag(i) = tag /\ \A j \in 1..(i - 1) : Tag(j) # tag

\* the features of the first n records that produce the tag, in input order
FeaturesWith(tag, n) ==
    Let(SelectSeq([i \in 1..n |-> i], LAMBDA i : Tag(i) = tag), LAMBDA sel :
        [j \in 1..Len(sel) |-> Feat(sel[j])])

\* C1: when every record of the batch converts, the call returns one
\* non-empty collection per distinct CRS tag the records produce, no two with
\* the same CRS name (none at all for an empty batch), ordered by the position
\* of the first record that produced each tag.
C1_OneCollectionPerCrs ==
    (pc = "returned" /\ Failing = {}) =>
        Let(result[1], LAMBDA res :
            /\ {res[k].crs.properties.name : k \in 1..Len(res)}
                  = {Tag(i) : i \in 1..Len(rows)}
            /\ Len(res) = Cardinality({Tag(i) : i \in 1..Len(rows)})
            /\ \A k \in 1..Len(res) : res[k].features # <<>>
            /\ \A k, l \in 1..Len(res) :
                  k < l => FirstWith(res[k].crs.properties.name, Len(rows))
                             < FirstWith(res[l].crs.properties.name, Len(rows))
            /\ (rows = <<>> => res = <<>>))

\* a batch of three whose second record opens the second collection and whose
\* third record joins the first
C1_Witness ==
    /\ pc = "returned"
    /\ Len(rows) = 3
    /\ Failing = {}
    /\ Tag(1) = "EPSG:5972" /\ Tag(2) = "EPSG:25832" /\ Tag(3) = "EPSG:5972"
    /\ Len(result[1]) = 2
    /\ result[1][1].crs.properties.name = "EPSG:5972"
    /\ result[1][2].crs.properties.name = "EPSG:25832"

\* C2: after any prefix of converted records the accumulation map holds, under
\* each CRS tag, exactly the features of the records that produced that tag,
\* in input order; its keys are the tags produced, so the list lengths sum to
\* the number of records converted.
C2_MapHoldsEveryFeature ==
    pc \in {"loop", "raised"} =>
        /\ {feature_by_crs[k].key : k \in 1..Len(feature_by_crs)}
              = {Tag(i) : i \in 1..Converted}
        /\ \A k, l \in 1..Len(feature_by_crs) :
              feature_by_crs[k].key = feature_by_crs[l].key => k = l
        /\ \A k \in 1..Len(feature_by_crs) :
              feature_by_crs[k].features = FeaturesWith(feature_by_crs[k].key, Converted)

\* the same record converted twice and a record of the other CRS between them
C2_Witness ==
    /\ pc = "loop"
    /\ idx = 3
    /\ rows[1] = rows[3]
    /\ Tag(1) # Tag(2)
    /\ Len(feature_by_crs) = 2
    /\ feature_by_crs[1].features = <<Feat(1), Feat(1)>>
    /\ feature_by_crs[2].features = <<Feat(2)>>

\* the coordinate positions of a geometry
Positions(geometry) ==
    IF geometry.type = "Point"
    THEN {geometry.coordinates}
    ELSE {geometry.coordinates[i] : i \in 1..Len(geometry.coordinates)}

\* number of components the positions of a CRS have
Dimension(name) == IF name = "EPSG:5972" THEN 3 ELSE 2

\* C3: in every returned collection every position of every feature has the
\* number of components of the collection's CRS: 2 in EPSG:25832, 3 in
\* EPSG:5972 (so all positions of one geometry have the same number).
C3_GeometryMatchesCrs ==
    pc = "returned" =>
        \A k \in 1..Len(result[1]) :
            /\ result[1][k].crs.properties.name \in {"EPSG:25832", "EPSG:5972"}
            /\ \A j \in 1..Len(result[1][k].features) :
                  \A p \in Positions(result[1][k].features[j].geometry) :
                      Len(p) = Dimension(result[1][k].crs.properties.name)

\* a returned batch with a 3-component line, a 2-component line and a point
C3_Witness ==
    /\ pc = "returned"
    /\ Len(result[1]) = 2
    /\ \E j \in 1..Len(result[1][1].features) :
          /\ result[1][1].features[j].geometry.type = "LineString"
          /\ Len(result[1][1].features[j].geometry.coordinates[2]) = 3
    /\ \E j \in 1..Len(result[1][2].features) :
          /\ result[1][2].features[j].geometry.type = "LineString"
          /\ Len(result[1][2].features[j].geometry.coordinates[2]) = 2
    /\ \E k \in 1..2 : \E j \in 1..Len(result[1][k].features) :
          result[1][k].features[j].geometry.type = "Point"

\* C4: when the conversion of a record of the batch raises, the call returns
\* nothing, no record after the first failing one is read, and the call ends
\* with the exception of that record.
C4_FirstErrorAborts ==
    Failing # {} =>
        Let(CHOOSE i \in Failing : \A j \in Failing : i <= j, LAMBDA first :
            /\ result = None
            /\ pc # "returned"
            /\ idx <= first
            /\ (idx = first <=> pc = "raised")
            /\ (pc = "raised" => exc = Some(Outcome[rows[first]])))

\* a batch that raised on its second record of three, after one conversion
C4_Witness ==
    /\ pc = "raised"
    /\ Len(rows) = 3
    /\ idx = 2
    /\ Len(feature_by_crs) = 1
    /\ result = None
    /\ Outcome[rows[3]].ok

(***************************************************************************)
(* Properties of the functions (checked under SpecFn)                      *)
(***************************************************************************)
\* the call of fn has finished
Done(fn) == call.fn = fn /\ ret # None

\* the call of fn has returned a value
Returned(fn) == Done(fn) /\ ret[1].ok

\* every triple of the list has a third component that is a non-empty text
AllHaveElevation(coordinates) ==
    \A i \in 1..Len(coordinates) :
        coordinates[i][3] # None /\ coordinates[i][3] # Some("")

\* C5: whenever create_geometry returns, the CRS is EPSG:5972 with
\* 3-component positions if every supplied triple has a non-empty third
\* component, and EPSG:25832 with 2-component positions otherwise, for points
\* and lines alike.
C5_CrsFromElevation ==
    Returned("create_geometry") =>
        /\ ret[1].val[2].properties.name
              = (IF AllHaveElevation(call.args[1]) THEN "EPSG:5972" ELSE "EPSG:25832")
        /\ \A p \in Positions(ret[1].val[1]) :
              Len(p) = (IF AllHaveElevation(call.args[1]) THEN 3 ELSE 2)
        /\ ret[1].val[1].type = (IF call.args[2] THEN "LineString" ELSE "Point")

\* a point built from two triples of which only the first has an elevation
C5_Witness ==
    /\ Returned("create_geometry")
    /\ ~call.args[2]
    /\ Len(call.args[1]) = 2
    /\ call.args[1][1][3] = Some("10")
    /\ call.args[1][2][3] = Some("")
    /\ ret[1].val[2].properties.name = "EPSG:25832"
    /\ Len(ret[1].val[1].coordinates) = 2

\* the number a coordinate text denotes
Number(c) == float_of(c[1]).val

\* the position create_geometry is to emit for a source triple
Swapped(t, n) ==
    IF n = 3 THEN <<Number(t[2]), Number(t[1]), Number(t[3])>>
    ELSE <<Number(t[2]), Number(t[1])>>

\* C6: every position create_geometry emits is its source triple as numbers
\* with the first two components exchanged, (y, x) or (y, x, z); a point is
\* built from the first triple and a line from both triples in source order.
C6_AxesSwapped ==
    Returned("create_geometry") =>
        IF call.args[2]
        THEN /\ Len(ret[1].val[1].coordinates) = Len(call.args[1])
             /\ \A i \in 1..Len(call.args[1]) :
                   ret[1].val[1].coordinates[i]
                      = Swapped(call.args[1][i], Len(ret[1].val[1].coordinates[i]))
        ELSE ret[1].val[1].coordinates
                = Swapped(call.args[1][1], Len(ret[1].val[1].coordinates))

\* a line without elevation whose four numbers are all different
C6_Witness ==
    /\ Returned("create_geometry")
    /\ call.args[2]
    /\ call.args[1] = << <<Some("100"), Some("200"), Some("")>>,
                         <<Some("2,5"), Some("-4,25"), None>> >>
    /\ ret[1].val[1].coordinates
          = << <<[m |-> 200, e |-> 0], [m |-> 100, e |-> 0]>>,
               <<[m |-> -425, e |-> 2], [m |-> 25, e |-> 1]>> >>

\* C7: a record that process_row converts has table id "109" or "261"; "109"
\* gives an NrlMast feature with a Point; "261" gives an NrlLuftspenn feature
\* with a LineString of 2 positions, built by the guy converter when
\* Betegnelse is "Bardunline" and by the AC-line converter otherwise.
C7_DispatchByTableAndLabel ==
    Returned("process_row") =>
        Let(call.args[1], LAMBDA row :
            /\ Get(row, "Tabell ID") \in {Some("109"), Some("261")}
            /\ Get(row, "Tabell ID") = Some("109") =>
                  /\ ret[1].val[1].properties.feature_type = "NrlMast"
                  /\ ret[1].val[1].geometry.type = "Point"
                  /\ ret[1] = convert_overhead_structure_rows(row)
            /\ Get(row, "Tabell ID") = Some("261") =>
                  /\ ret[1].val[1].properties.feature_type = "NrlLuftspenn"
                  /\ ret[1].val[1].geometry.type = "LineString"
                  /\ Len(ret[1].val[1].geometry.coordinates) = 2
                  /\ ret[1] = (IF Get(row, "Betegnelse") = Some("Bardunline")
                               THEN convert_guy_segments_rows(row)
                               ELSE convert_ac_linesegments_rows(row)))

\* a line record with a Betegnelse other than "Bardunline", converted as an
\* AC line
C7_Witness ==
    /\ Returned("process_row")
    /\ call.args[1] = With(AC3D, "Betegnelse", Some("abc"))
    /\ ret[1].val[1].properties.feature_type = "NrlLuftspenn"
    /\ ret[1].val[1].properties.luftspenn_type = "høgspent"
    /\ Len(ret[1].val[1].geometry.coordinates) = 2

\* the table id of the record the loop read last
LastTableId == Get(rows[idx], "Tabell ID")

\* C8: a record whose table id is neither "109" nor "261" (or is missing)
\* ends the batch with the ValueError "Unknown Tabell ID: <id>", and the call
\* returns no collections.
C8_UnknownTableAborts ==
    (idx >= 1 /\ LastTableId \notin {Some("109"), Some("261")}) =>
        /\ pc = "raised"
        /\ exc = Some(ValueError("Unknown Tabell ID: " \o FStr(LastTableId)))
        /\ result = None

\* a batch that converted a record and then read one without 'Tabell ID'
C8_Witness ==
    /\ pc = "raised"
    /\ idx = 2
    /\ "Tabell ID" \notin DOMAIN rows[2]
    /\ "Guy_uuid" \in DOMAIN rows[2]
    /\ exc = Some(ValueError("Unknown Tabell ID: None"))
    /\ Len(feature_by_crs) = 1

\* what a required resolver is to return: the member mapped to an accepted
\* text, the ValueError that names the enum and the raw value otherwise
Required(mapping, name, value) ==
    IF value # None /\ value[1] \in DOMAIN mapping
    THEN Ok(mapping[value[1]])
    ELSE ValueError("Unknown " \o name \o ": " \o FStr(value))

\* C9: the required resolvers return the mapped member for every accepted text
\* and raise for every other input, the empty text and None included; a
\* record that reaches a converter with an empty or missing status is not
\* converted, while the lighting resolver returns None for the same input.
C9_RequiredEnumsRaise ==
    /\ Done("map_luftspenn_type") =>
          ret[1] = Required(LuftspennTypeMapping, "Luftspenntype", call.args[1])
    /\ Done("map_mast_type") =>
          ret[1] = Required(MastTypeMapping, "Masttype", call.args[1])
    /\ Done("map_feature_status") =>
          ret[1] = Required(FeatureStatusMapping, "Status", call.args[1])
    /\ (Done("map_lighting_kind") /\ ~Truthy(call.args[1])) => ret[1] = Ok(None)
    /\ (Done("process_row") /\ ~Truthy(Get(call.args[1], "Status (NRL)"))) =>
          /\ ~ret[1].ok
          /\ (get_uuid(call.args[1], <<"OverheadStructure_uuid", "ID">>).ok
              /\ map_mast_type(Get(call.args[1], "Masttype (NRL)")).ok
              /\ Get(call.args[1], "Tabell ID") = Some("109"))
             => ret[1] = ValueError("Unknown Status: "
                                    \o FStr(Get(call.args[1], "Status (NRL)")))

\* a mast record, valid but for its empty status, that was not converted
C9_Witness ==
    /\ Done("process_row")
    /\ call.args[1] = With(Mast3D, "Status (NRL)", Some(""))
    /\ ret[1] = ValueError("Unknown Status: ")

\* what an optional resolver is to return
Optional(mapping, value) ==
    IF value # None /\ value[1] \in DOMAIN mapping
    THEN Ok(Some(mapping[value[1]]))
    ELSE Ok(None)

\* the record without its lighting and marking columns
WithoutLightingAndMarking(row) ==
    Drop(Drop(Drop(row, "Luftfartshinderlyssetting(NRL)"),
              "Luftfartshindermerking (NRL)"), "Luftfartshindermerking(NRL)")

\* C10: the optional resolvers never raise: they return the mapped member for
\* an accepted text and None for every other input; whether a record converts
\* does not depend on its lighting and marking columns.
C10_OptionalEnumsNeverRaise ==
    /\ Done("map_lighting_kind") => ret[1] = Optional(LightingMapping, call.args[1])
    /\ Done("map_marking_kind") => ret[1] = Optional(MarkingMapping, call.args[1])
    /\ Done("process_row") =>
          ret[1].ok = process_row(WithoutLightingAndMarking(call.args[1])).ok

\* a mast record with a lighting text outside the mapping, converted with
\* the lighting absent
C10_Witness ==
    /\ Returned("process_row")
    /\ call.args[1] = With(Mast3D, "Luftfartshinderlyssetting(NRL)", Some("abc"))
    /\ ret[1].val[1].properties.luftfartshinderlyssetting = None
    /\ ret[1].val[1].properties.luftfartshindermerking = Some("fargermerking")

\* the candidate fields of the call that hold a valid UUID
ValidCandidates(row, fields) ==
    {i \in 1..Len(fields) :
        /\ fields[i] \in DOMAIN row
        /\ row[fields[i]] \notin {None, Some("")}
        /\ UUID(row[fields[i]][1]).ok}

\* C11: get_uuid returns the UUID of the first candidate field, in the given
\* order, whose text is a valid UUID, skipping absent, empty and malformed
\* candidates, and raises "No valid UUID found in fields: <fields>" exactly
\* when no candidate field holds a valid UUID.
C11_FirstValidCandidate ==
    Done("get_uuid") =>
        Let(ValidCandidates(call.args[1], call.args[2]), LAMBDA valid :
            IF valid = {}
            THEN ret[1] = ValueError("No valid UUID found in fields: "
                                     \o ReprTuple(call.args[2]))
            ELSE Let(CHOOSE i \in valid : \A j \in valid : i <= j, LAMBDA first :
                     /\ ret[1].ok
                     /\ ret[1] = UUID(call.args[1][call.args[2][first]][1])
                     /\ Len(ret[1].val) = UuidHexLen))

\* the first candidate is malformed and the second one, in upper case, is
\* returned in canonical form
C11_Witness ==
    /\ Returned("get_uuid")
    /\ call.args[2] = <<"Guy_uuid", "ID">>
    /\ call.args[1] = ("Guy_uuid" :> Some("G-17")) @@ ("ID" :> Some(U2))
    /\ ret[1].val = "fa1bf202345c49f0831b5d5a12103612"

\* the call converted an AC-line span record
ReturnedAcLine ==
    /\ Returned("process_row")
    /\ Get(call.args[1], "Tabell ID") = Some("261")
    /\ Get(call.args[1], "Betegnelse") # Some("Bardunline")

\* C12: the feature of an AC-line span record carries the lighting member
\* resolved from the record's lighting field and the marking member resolved
\* from its marking field; they are absent only when the field is empty or
\* unrecognized.
C12_AcLineLightingFromRecord ==
    ReturnedAcLine =>
        /\ Ok(ret[1].val[1].properties.luftfartshinderlyssetting)
              = Optional(LightingMapping,
                         Get(call.args[1], "Luftfartshinderlyssetting(NRL)"))
        /\ Ok(ret[1].val[1].properties.luftfartshindermerking)
              \in {Optional(MarkingMapping, Get(call.args[1], "Luftfartshindermerking (NRL)")),
                   Optional(MarkingMapping, Get(call.args[1], "Luftfartshindermerking(NRL)"))}

\* the component reference of a feature: the one its converter passed to the
\* properties, absent when the converter passed none
Referanse(properties) ==
    IF "referanse" \in DOMAIN properties THEN properties.referanse ELSE None

\* C13: for every record type, the feature's properties carry a component
\* reference whose code value is the text of the 'ID' field when that field
\* is non-empty, and no reference when 'ID' is empty or absent.
C13_ReferenceFromId ==
    Returned("process_row") =>
        Referanse(ret[1].val[1].properties)
           = (IF Get(call.args[1], "ID") \in {None, Some("")}
              THEN None
              ELSE Some([komponentkodeverdi |-> call.args[1]["ID"][1]]))

\* C14: every failure of converting a record is raised as a ValueError; no
\* other kind of exception escapes process_row, whatever fields the record
\* has or lacks.
C14_OnlyValueErrorEscapes ==
    (Done("process_row") /\ ~ret[1].ok) => ret[1].exc = "ValueError"

\* the call handed an AC-line span record to process_row
DoneAcLine ==
    /\ Done("process_row")
    /\ Get(call.args[1], "Tabell ID") = Some("261")
    /\ "Betegnelse" \in DOMAIN call.args[1]
    /\ call.args[1]["Betegnelse"] # Some("Bardunline")

\* the mast field i of the record holds a text
HasMast(row, i) ==
    Get(row, <<"Mast_1_ObjectID", "Mast_2_ObjectID">>[i]) \notin {None, Some("")}

\* the text of mast field i as a UUID
MastUuid(row, i) == UUID(row[<<"Mast_1_ObjectID", "Mast_2_ObjectID">>[i]][1])

\* C15: the feature of an AC-line span record lists the UUID of each
\* non-empty 'Mast_i_ObjectID' field, Mast_1 before Mast_2; an empty or absent
\* mast field is skipped, and a non-empty mast field that is no valid UUID
\* aborts the conversion of the record.
C15_MastReferences ==
    DoneAcLine =>
        Let(call.args[1], LAMBDA row :
            /\ (\E i \in 1..2 : HasMast(row, i) /\ ~MastUuid(row, i).ok) => ~ret[1].ok
            /\ ret[1].ok =>
                  ret[1].val[1].properties.nrl_mast
                     = (IF HasMast(row, 1) THEN <<MastUuid(row, 1).val>> ELSE <<>>)
                       \o (IF HasMast(row, 2) THEN <<MastUuid(row, 2).val>> ELSE <<>>)
            /\ (\A i \in 1..2 : ~HasMast(row, i)) =>
                  ret[1].ok = process_row(Drop(Drop(row, "Mast_1_ObjectID"),
                                               "Mast_2_ObjectID")).ok)

\* an AC-line record with two mast fields, converted with both UUIDs in order
C15_Witness ==
    /\ Returned("process_row")
    /\ call.args[1] = With(AC3D, "Mast_2_ObjectID", Some(U2))
    /\ ret[1].val[1].properties.nrl_mast
          = <<"550e8400e29b41d4a716446655440000", "fa1bf202345c49f0831b5d5a12103612">>

\* the numbers the numeric texts denote, as mantissa and decimal places
Denotes ==
    ("12.5" :> [m |-> 125, e |-> 1]) @@ ("12,5" :> [m |-> 125, e |-> 1])
    @@ ("12,50" :> [m |-> 125, e |-> 1])
    @@ ("-4,25" :> [m |-> -425, e |-> 2]) @@ ("-4.25" :> [m |-> -425, e |-> 2])
    @@ ("100" :> [m |-> 100, e |-> 0]) @@ (",5" :> [m |-> 5, e |-> 1])
    @@ (".5" :> [m |-> 5, e |-> 1]) @@ ("5," :> [m |-> 5, e |-> 0])
    @@ (" 7 " :> [m |-> 7, e |-> 0]) @@ ("+3" :> [m |-> 3, e |-> 0])

\* C16: parse_float reads ',' and '.' as the same decimal separator, raises
\* "Missing <field>" for an absent value and "<field> is not a valid number:
\* <value>" for a text that is no number, the empty text included.
C16_ParseFloat ==
    Done("parse_float") =>
        Let(call.args[1], LAMBDA value :
        Let(call.args[2], LAMBDA field :
            IF value = None
            THEN ret[1] = ValueError("Missing " \o field)
            ELSE /\ ret[1] = (IF value[1] \in DOMAIN Denotes
                              THEN Ok(Denotes[value[1]])
                              ELSE ValueError(field \o " is not a valid number: "
                                              \o value[1]))
                 /\ Let(parse_float(Some(Replace(value[1], ",", ".")), field),
                        LAMBDA dotted :
                            /\ dotted.ok = ret[1].ok
                            /\ dotted.ok => dotted.val = ret[1].val)))

\* a number written with a decimal comma
C16_Witness ==
    /\ Returned("parse_float")
    /\ call.args = <<Some("-4,25"), "test_field">>
    /\ ret[1].val = [m |-> -425, e |-> 2]

\* C17: map_location_method never fails: it returns "20230101_5-1" exactly
\* for the text "FOR-2020-10-16-2068, §5(1)" and "0" for every other input,
\* the empty text and an absent value included; whether a record converts
\* does not depend on its location-method column.
C17_LocationMethodTotal ==
    /\ Done("map_location_method") =>
          ret[1] = Ok(IF call.args[1] = Some("FOR-2020-10-16-2068, §5(1)")
                      THEN "20230101_5-1" ELSE "0")
    /\ Done("process_row") =>
          /\ ret[1].ok
                = process_row(Drop(call.args[1], "Verifisert nøyaktighet (NRL)")).ok
          /\ ret[1].ok =>
                ret[1].val[1].properties.verifisert_rapporteringsnoyaktighet
                   \in {"20230101_5-1", "0"}

\* an absent value resolved to the default code
C17_Witness ==
    /\ Returned("map_location_method")
    /\ call.args[1] = None
    /\ ret[1].val = "0"

\* the call handed a guy-line record to process_row
DoneGuyLine ==
    /\ Done("process_row")
    /\ Get(call.args[1], "Tabell ID") = Some("261")
    /\ Get(call.args[1], "Betegnelse") = Some("Bardunline")

\* C18: a guy-line record yields a Luftspenn feature whose span type is
\* bardun whatever its 'Luftspenntype (NRL)' field holds: an empty, absent or
\* unmapped span-type text neither changes the result nor makes the
\* conversion fail.
C18_GuySpanTypeFixed ==
    DoneGuyLine =>
        /\ ret[1] = process_row(Drop(call.args[1], "Luftspenntype (NRL)"))
        /\ Drop(call.args[1], "Luftspenntype (NRL)") \in {Guy3D, GuyMixedZ} => ret[1].ok
        /\ ret[1].ok =>
              /\ ret[1].val[1].properties.luftspenn_type = "bardun"
              /\ ret[1].val[1].properties.feature_type = "NrlLuftspenn"

\* a guy-line record whose span-type field names an AC-line type
C18_Witness ==
    /\ Returned("process_row")
    /\ call.args[1] = With(Guy3D, "Luftspenntype (NRL)", Some("Ledning, regionalnett"))
    /\ ret[1].val[1].properties.luftspenn_type = "bardun"

\* C19: a line built from a number of coordinate triples other than 2 fails
\* with "LineString requires exactly 2 points", also when the components are
\* no numbers, and the error is not wrapped as an invalid-coordinate error.
C19_ArityBeforeParsing ==
    (Done("create_geometry") /\ call.args[2] /\ Len(call.args[1]) # 2) =>
        ret[1] = ValueError("LineString requires exactly 2 points")

\* a line of one triple whose x is no number
C19_Witness ==
    /\ Done("create_geometry")
    /\ call.args[2]
    /\ call.args[1] = << <<Some("abc"), Some("200"), Some("10")>> >>
    /\ ret[1].msg = "LineString requires exactly 2 points"

\* the triple has a non-empty elevation
HasElevation(t) == t[3] # None /\ t[3] # Some("")

\* the call builds a line of which exactly one end point has an elevation
DoneMixedLine ==
    /\ Done("create_geometry")
    /\ call.args[2]
    /\ Len(call.args[1]) = 2
    /\ HasElevation(call.args[1][1]) # HasElevation(call.args[1][2])

\* the triple with an empty elevation
Flat(t) == <<t[1], t[2], Some("")>>

\* C20: a line of which exactly one end point has a non-empty elevation is
\* built as a 2-component LineString tagged EPSG:25832; the elevation is
\* neither emitted nor parsed, so an elevation that is no number does not
\* make the call fail.
C20_MixedElevationLine ==
    DoneMixedLine =>
        /\ ret[1] = create_geometry(<<Flat(call.args[1][1]), Flat(call.args[1][2])>>, TRUE)
        /\ (\A i \in 1..2 : /\ call.args[1][i][1] \in {Some("100"), Some("2,5")}
                            /\ call.args[1][i][2] \in {Some("200"), Some("-4,25")})
              => ret[1].ok
        /\ ret[1].ok =>
              /\ ret[1].val[1].type = "LineString"
              /\ ret[1].val[2].properties.name = "EPSG:25832"
              /\ \A i \in 1..2 : Len(ret[1].val[1].coordinates[i]) = 2

\* a line whose first end point has an elevation that is no number and
\* whose second end point has none
C20_Witness ==
    /\ Returned("create_geometry")
    /\ call.args[2]
    /\ call.args[1] = << <<Some("100"), Some("200"), Some("zz")>>,
                         <<Some("2,5"), Some("-4,25"), Some("")>> >>
    /\ ret[1].val[2].properties.name = "EPSG:25832"
    /\ ret[1].val[1].coordinates
          = << <<[m |-> 200, e |-> 0], [m |-> 100, e |-> 0]>>,
               <<[m |-> -425, e |-> 2], [m |-> 25, e |-> 1]>> >>

\* C21: the location method of a guy-line feature is resolved from the
\* 'Vertikalavstand meter (NRL)' field and does not depend on the
\* 'Verifisert nøyaktighet (NRL)' field: a guy record with the legal citation
\* in the latter and not in the former gets location method "0".
C21_GuyLocationMethodField ==
    DoneGuyLine =>
        /\ ret[1] = process_row(Drop(call.args[1], "Verifisert nøyaktighet (NRL)"))
        /\ ret[1].ok =>
              ret[1].val[1].properties.verifisert_rapporteringsnoyaktighet
                 = (IF Get(call.args[1], "Vertikalavstand meter (NRL)")
                          = Some("FOR-2020-10-16-2068, §5(1)")
                    THEN "20230101_5-1" ELSE "0")

\* a guy record with the legal citation in 'Verifisert nøyaktighet (NRL)' only
C21_Witness ==
    /\ Returned("process_row")
    /\ call.args[1] = With(Guy3D, "Verifisert nøyaktighet (NRL)",
                           Some("FOR-2020-10-16-2068, §5(1)"))
    /\ "Vertikalavstand meter (NRL)" \notin DOMAIN call.args[1]
    /\ ret[1].val[1].properties.verifisert_rapporteringsnoyaktighet = "0"

====
